---- MODULE Spec2Model ----
(***************************************************************************)
(* Paper summarizer: the Planner-Executor agent (src/src/agent.py), the    *)
(* PDF text extractor (src/src/extract.py), the post-generation cleanup of *)
(* the model wrapper (src/src/model_simple.py) and the Streamlit front end *)
(* (src/ui.py).                                                            *)
(*                                                                         *)
(* A Python str is a sequence of one-character strings, so that `in`,      *)
(* split, strip, replace and slicing are computed character by character.  *)
(***************************************************************************)
EXTENDS Integers, Sequences, FiniteSets, TLC

(***************************************************************************)
(* Python str primitives                                                   *)
(***************************************************************************)

\* the characters str.strip() and str.split() treat as whitespace
Whitespace == {" ", "\n", "\t"}

\* s[:n]
Take(s, n) == SubSeq(s, 1, IF Len(s) < n THEN Len(s) ELSE n)

\* kw occurs in s at index i
MatchAt(s, kw, i) ==
    /\ i >= 1
    /\ i + Len(kw) - 1 <= Len(s)
    /\ \A j \in 1..Len(kw) : s[i + j - 1] = kw[j]

\* kw in s
Contains(s, kw) == \E i \in 1..(Len(s) - Len(kw) + 1) : MatchAt(s, kw, i)

\* s.find(kw) + 1, for kw in s
IndexOf(s, kw) ==
    CHOOSE i \in 1..(Len(s) - Len(kw) + 1) :
        /\ MatchAt(s, kw, i)
        /\ \A j \in 1..(i - 1) : ~MatchAt(s, kw, j)

\* s.split(kw, 1)[1], for kw in s
SplitAfter(s, kw) == SubSeq(s, IndexOf(s, kw) + Len(kw), Len(s))

\* s.split(kw)[0] and s.split(kw, 1)[0], for kw in s
SplitBefore(s, kw) == SubSeq(s, 1, IndexOf(s, kw) - 1)

\* s.strip()
Strip(s) ==
    LET NonWs == {i \in 1..Len(s) : s[i] \notin Whitespace}
    IN  IF NonWs = {} THEN <<>>
        ELSE LET lo == CHOOSE i \in NonWs : \A j \in 1..(i - 1) : s[j] \in Whitespace
                 hi == CHOOSE i \in NonWs : \A j \in (i + 1)..Len(s) : s[j] \in Whitespace
             IN  SubSeq(s, lo, hi)

\* s.replace("\n", " ")
ReplaceNewlines(s) == [i \in 1..Len(s) |-> IF s[i] = "\n" THEN " " ELSE s[i]]

\* " ".join(s.split()): every whitespace run between two words becomes one
\* space, leading and trailing whitespace is dropped
JoinSplit(s) ==
    LET t == Strip(s)
        marked == [i \in 1..Len(t) |->
                     IF t[i] \notin Whitespace THEN t[i]
                     ELSE IF t[i - 1] \notin Whitespace THEN " " ELSE "DROP"]
    IN  SelectSeq(marked, LAMBDA c : c # "DROP")

\* s.replace("\n\n", "\n"): non-overlapping pairs, scanned left to right, so
\* the newline at i is dropped when an odd number of newlines precede it in
\* its run
ReplaceDoubleNewline(s) ==
    LET RunBefore(i) ==
            LET start == CHOOSE k \in 1..i :
                            /\ \A j \in k..i : s[j] = "\n"
                            /\ (k = 1 \/ s[k - 1] # "\n")
            IN  i - start
        marked == [i \in 1..Len(s) |->
                     IF s[i] = "\n" /\ RunBefore(i) % 2 = 1 THEN "DROP" ELSE s[i]]
    IN  SelectSeq(marked, LAMBDA c : c # "DROP")

\* s.replace(old, "") for a non-empty old
RECURSIVE RemoveAll(_, _)
RemoveAll(s, old) ==
    IF Contains(s, old)
    THEN SplitBefore(s, old) \o RemoveAll(SplitAfter(s, old), old)
    ELSE s

(***************************************************************************)
(* Section isolation: PaperSummarizerAgent._find_abstract                  *)
(***************************************************************************)

\* "Abstract", "ABSTRACT", "Summary", "Introduction", "1. Introduction",
\* "I. INTRODUCTION"
start_keywords == <<
    <<"A", "b", "s", "t", "r", "a", "c", "t">>,
    <<"A", "B", "S", "T", "R", "A", "C", "T">>,
    <<"S", "u", "m", "m", "a", "r", "y">>,
    <<"I", "n", "t", "r", "o", "d", "u", "c", "t", "i", "o", "n">>,
    <<"1", ".", " ", "I", "n", "t", "r", "o", "d", "u", "c", "t", "i", "o", "n">>,
    <<"I", ".", " ", "I", "N", "T", "R", "O", "D", "U", "C", "T", "I", "O", "N">> >>

\* "Keywords:", "Key words:", "1. Introduction", "1 Introduction",
\* "I. INTRODUCTION", "Contents", "Introduction\n"
end_keywords == <<
    <<"K", "e", "y", "w", "o", "r", "d", "s", ":">>,
    <<"K", "e", "y", " ", "w", "o", "r", "d", "s", ":">>,
    <<"1", ".", " ", "I", "n", "t", "r", "o", "d", "u", "c", "t", "i", "o", "n">>,
    <<"1", " ", "I", "n", "t", "r", "o", "d", "u", "c", "t", "i", "o", "n">>,
    <<"I", ".", " ", "I", "N", "T", "R", "O", "D", "U", "C", "T", "I", "O", "N">>,
    <<"C", "o", "n", "t", "e", "n", "t", "s">>,
    <<"I", "n", "t", "r", "o", "d", "u", "c", "t", "i", "o", "n", "\n">> >>

\* text[:3000] when no start marker is found
NoStartLen == 3000

\* cleaned text shorter than this is replaced by the fallback
MinCleanLen == 50

\* text[:2000] of the fallback
FallbackLen == 2000

\* Mutant of ScanKeywords: the keyword that occurs earliest in the text wins
ScanKeywords_ByTextPosition(keywords, s, k) ==
    LET present == {j \in k..Len(keywords) : Contains(s, keywords[j])}
    IN  IF present = {} THEN 0
        ELSE CHOOSE j \in present : \A i \in present :
                \/ IndexOf(s, keywords[j]) < IndexOf(s, keywords[i])
                \/ IndexOf(s, keywords[j]) = IndexOf(s, keywords[i]) /\ j <= i

\* "for keyword in keywords: if keyword in s: ...; break", from index k on:
\* the index of the first keyword of the list, in list order, that occurs
\* in s; 0 when none does
RECURSIVE ScanKeywords(_, _, _)
ScanKeywords(keywords, s, k) ==
    IF k > Len(keywords) THEN 0
    ELSE IF Contains(s, keywords[k]) THEN k
    ELSE ScanKeywords(keywords, s, k + 1)

FirstKeyword(keywords, s) == ScanKeywords(keywords, s, 1)

\* "Find start", k the start keyword found: the text after its first
\* occurrence, text[:3000] when there is none
FindStart(text, k) ==
    IF k # 0 THEN SplitAfter(text, start_keywords[k])
    ELSE Take(text, NoStartLen)

\* "Find end", k the end keyword found: the text before its first occurrence
FindEnd(extracted_text, k) ==
    IF k # 0 THEN SplitBefore(extracted_text, end_keywords[k])
    ELSE extracted_text

\* "Final cleanup"
FinalCleanup(extracted_text) == ReplaceNewlines(Strip(extracted_text))

\* Mutant of ValidateLength: the fallback keeps its newlines
ValidateLength_KeepsNewlines(cleaned, text) ==
    IF Len(cleaned) < MinCleanLen
    THEN Take(text, FallbackLen)
    ELSE cleaned

\* "Validate length"
ValidateLength(cleaned, text) ==
    IF Len(cleaned) < MinCleanLen
    THEN ReplaceNewlines(Take(text, FallbackLen))
    ELSE cleaned

\* The locals of _find_abstract when it returns; ret is the returned value
FindAbstractLocals(text) ==
    LET sk == FirstKeyword(start_keywords, text)
        s  == FindStart(text, sk)
        ek == FirstKeyword(end_keywords, s)
        e  == FindEnd(s, ek)
        c  == FinalCleanup(e)
    IN  [ text        |-> text,
          start_kw    |-> sk,
          after_start |-> s,
          end_kw      |-> ek,
          after_end   |-> e,
          cleaned     |-> c,
          ret         |-> ValidateLength(c, text) ]

_find_abstract(text) == FindAbstractLocals(text).ret

(***************************************************************************)
(* Post-generation cleanup: SummarizerModel.summarize                      *)
(***************************************************************************)

PromptHead ==
    <<"Y", "o", "u", " ", "a", "r", "e", " ", "a", "n", " ", "a", "c", "a",
    "d", "e", "m", "i", "c", " ", "p", "a", "p", "e", "r", " ", "s", "u",
    "m", "m", "a", "r", "i", "z", "e", "r", ".", " ", "P", "r", "o", "v",
    "i", "d", "e", " ", "a", " ", "c", "o", "n", "c", "i", "s", "e", ",",
    " ", "s", "i", "n", "g", "l", "e", "-", "p", "a", "r", "a", "g", "r",
    "a", "p", "h", " ", "s", "u", "m", "m", "a", "r", "y", " ", "o", "f",
    " ", "t", "h", "e", " ", "f", "o", "l", "l", "o", "w", "i", "n", "g",
    " ", "a", "b", "s", "t", "r", "a", "c", "t", ".", "\n", "\n", "A", "b",
    "s", "t", "r", "a", "c", "t", ":", "\n">>

PromptTail == <<"\n", "\n", "S", "u", "m", "m", "a", "r", "y", ":">>

SummaryMarker == <<"S", "u", "m", "m", "a", "r", "y", ":">>

stop_phrases == <<
    <<"Q", "u", "e", "s", "t", "i", "o", "n", ":">>,
    <<"Q", "u", "e", "s", "t", "i", "o", "n", "s", ":">>,
    <<"[", "Q", "U", "E", "S", "T", "I", "O", "N">>,
    <<"[", "Q", ":">>,
    <<"Q", ":">>,
    <<"R", "e", "f", "e", "r", "e", "n", "c", "e", "s", ":">>,
    <<"R", "e", "f", "e", "r", "e", "n", "c", "e", ":">>,
    <<"B", "i", "b", "l", "i", "o", "g", "r", "a", "p", "h", "y", ":">>,
    <<"\n", "\n", "#", "#">>,
    <<"#", "#">>,
    <<"I", "n", "t", "r", "o", "d", "u", "c", "t", "i", "o", "n", ":">>,
    <<"C", "o", "n", "c", "l", "u", "s", "i", "o", "n", ":">>,
    <<"N", "o", "t", "e", ":">>,
    <<"N", "o", "t", "e", "s", ":">>,
    <<"A", "c", "k", "n", "o", "w", "l", "e", "d", "g", "m", "e", "n", "t">>,
    <<"A", "c", "k", "n", "o", "w", "l", "e", "d", "g", "e", "m", "e", "n", "t">>,
    <<"A", "p", "p", "e", "n", "d", "i", "x">>,
    <<"F", "i", "g", "u", "r", "e">>,
    <<"T", "a", "b", "l", "e">> >>

\* text[:2000] in the prompt
PromptTextLen == 2000

\* summary[:800]
MaxSummaryLen == 800

\* the f-string prompt
BuildPrompt(text) == PromptHead \o Take(text, PromptTextLen) \o PromptTail

\* "Extract only the summary part"
ExtractSummaryPart(full_output, prompt) ==
    IF Contains(full_output, SummaryMarker)
    THEN Strip(SplitAfter(full_output, SummaryMarker))
    ELSE Strip(RemoveAll(full_output, prompt))

\* Mutant of RemoveFrom: the loop stops at the first stop phrase it finds
RECURSIVE RemoveFrom_BreakAfterFirst(_, _)
RemoveFrom_BreakAfterFirst(summary, k) ==
    IF k > Len(stop_phrases) THEN summary
    ELSE IF Contains(summary, stop_phrases[k])
         THEN Strip(SplitBefore(summary, stop_phrases[k]))
         ELSE RemoveFrom_BreakAfterFirst(summary, k + 1)

\* "Remove common hallucinations": the loop over stop_phrases from index k
RECURSIVE RemoveFrom(_, _)
RemoveFrom(summary, k) ==
    IF k > Len(stop_phrases) THEN summary
    ELSE IF Contains(summary, stop_phrases[k])
         THEN RemoveFrom(Strip(SplitBefore(summary, stop_phrases[k])), k + 1)
         ELSE RemoveFrom(summary, k + 1)

RemoveHallucinations(summary) == RemoveFrom(summary, 1)

\* Mutant of LimitLength: the slice is one character too long
LimitLength_OffByOne(summary) ==
    IF Len(summary) > MaxSummaryLen THEN Take(summary, MaxSummaryLen + 1) ELSE summary

\* "Limit length"
LimitLength(summary) ==
    IF Len(summary) > MaxSummaryLen THEN Take(summary, MaxSummaryLen) ELSE summary

\* Everything summarize does with the decoded model output
PostProcess(full_output, prompt) ==
    LimitLength(JoinSplit(RemoveHallucinations(ExtractSummaryPart(full_output, prompt))))

(***************************************************************************)
(* PDF text extraction: extract_text_from_pdf                              *)
(***************************************************************************)

\* A Python dict is a function from its keys; d[k] = v
Put(d, k, v) == [x \in DOMAIN d \cup {k} |-> IF x = k THEN v ELSE d[x]]

EmptyDict == <<>>

\* "for page in pdf_reader.pages": full_text += text + "\n" for every page
\* whose extracted text is non-empty
RECURSIVE JoinPages(_)
JoinPages(pages) ==
    IF pages = <<>> THEN <<>>
    ELSE (IF Head(pages) # <<>> THEN Head(pages) \o <<"\n">> ELSE <<>>)
         \o JoinPages(Tail(pages))

\* files is the file system: a function from the paths that exist to the
\* file contents.  A file that PyPDF2 cannot read has pdf = FALSE.
extract_text_from_pdf(files, pdf_path) ==
    IF pdf_path \notin DOMAIN files
    THEN [text |-> <<>>, metadata |-> EmptyDict, success |-> FALSE,
          error |-> <<"File not found: ", pdf_path>>]
    ELSE IF ~files[pdf_path].pdf
    THEN [text |-> <<>>, metadata |-> EmptyDict, success |-> FALSE,
          error |-> "PdfReadError"]
    ELSE [text |-> Strip(ReplaceDoubleNewline(JoinPages(files[pdf_path].pages))),
          metadata |-> [num_pages |-> Len(files[pdf_path].pages),
                        title |-> files[pdf_path].title],
          success |-> TRUE]

(***************************************************************************)
(* Chunking: chunk_text                                                    *)
(***************************************************************************)

\* text.split(): the words between runs of whitespace
RECURSIVE Words(_)
Words(s) ==
    LET t == Strip(s)
        ws == {i \in 1..Len(t) : t[i] \in Whitespace}
    IN  IF t = <<>> THEN <<>>
        ELSE IF ws = {} THEN <<t>>
        ELSE LET first == CHOOSE i \in ws : \A j \in ws : i <= j
             IN  <<SubSeq(t, 1, first - 1)>> \o Words(SubSeq(t, first + 1, Len(t)))

\* ' '.join(words)
RECURSIVE JoinWords(_)
JoinWords(words) ==
    IF words = <<>> THEN <<>>
    ELSE IF Len(words) = 1 THEN words[1]
    ELSE words[1] \o <<" ">> \o JoinWords(Tail(words))

\* "for word in words", from word i on, followed by "Add remaining words":
\* the chunks list when the loop and the final append are done
RECURSIVE ChunkLoop(_, _, _, _, _, _)
ChunkLoop(words, i, chunk_list, current_chunk, current_length, max_length) ==
    IF i > Len(words)
    THEN IF current_chunk # <<>>
         THEN Append(chunk_list, JoinWords(current_chunk))
         ELSE chunk_list
    ELSE LET word_length == Len(words[i]) + 1
         IN  IF current_length + word_length > max_length
             THEN ChunkLoop(words, i + 1,
                            IF current_chunk # <<>>
                            THEN Append(chunk_list, JoinWords(current_chunk))
                            ELSE chunk_list,
                            <<words[i]>>, word_length, max_length)
             ELSE ChunkLoop(words, i + 1, chunk_list,
                            Append(current_chunk, words[i]),
                            current_length + word_length, max_length)

chunk_text(text, max_length) ==
    LET chunk_list == ChunkLoop(Words(text), 1, <<>>, <<>>, 0, max_length)
    IN  IF chunk_list # <<>> THEN chunk_list ELSE <<Take(text, max_length)>>

(***************************************************************************)
(* Bounds and inputs                                                       *)
(***************************************************************************)

\* uploads handled by one front-end session
MaxRequests == 2

\* pieces a text given to _find_abstract is made of
MaxTextPieces == 3

\* pieces a decoded model output is made of
MaxOutputPieces == 3

Repeat(c, n) == [i \in 1..n |-> c]

\* All concatenations of at most n pieces
RECURSIVE Concats(_, _)
Concats(pieces, n) ==
    IF n = 0 THEN {<<>>}
    ELSE LET shorter == Concats(pieces, n - 1)
         IN  shorter \cup {p \o s : p \in pieces, s \in shorter}

\* "Abstract\n" + 60 letters + "\nKeywords: ml"
PageAbstract ==
    start_keywords[1] \o <<"\n">> \o Repeat("w", 60) \o <<"\n">>
    \o end_keywords[1] \o <<" ", "m", "l">>

\* a page PyPDF2 extracts no text from
PageBlank == <<>>

\* the pages of the PDFs: one with an abstract, a scanned one without text, and
\* a scanned cover followed by the abstract
PageSeqs == {<<PageAbstract>>, <<PageBlank>>, <<PageBlank, PageAbstract>>}

NotPdf == [pdf |-> FALSE]

\* what is left of the temporary file when the write fails
Partial == [pdf |-> FALSE, partial |-> TRUE]

Pdfs == {[pdf |-> TRUE, pages |-> ps, title |-> "Unknown"] : ps \in PageSeqs}

\* the uploaded files
Uploads == Pdfs \cup {NotPdf}

\* the files the command line is run on
UserFiles ==
    [p \in {"paper.pdf", "notes.txt"} |->
        IF p = "paper.pdf"
        THEN [pdf |-> TRUE, pages |-> <<PageAbstract>>, title |-> "Unknown"]
        ELSE NotPdf]

CliPaths == {"paper.pdf", "notes.txt", "missing.pdf"}

\* what the model generates after the prompt
Continuations ==
    { <<>>,
      <<" ", "I", "t", " ", "w", "o", "r", "k", "s", ".", " ", "F", "i", "g", "u", "r", "e", " ", "1", " ", "s", "h", "o", "w", "s", " ", "i", "t", ".">>,
      Repeat("y", 450) \o <<"\n">> \o Repeat("y", 450) }

\* str(e) of an exception raised by the model call
ModelErrors == {"CUDA out of memory"}

\* the name NamedTemporaryFile gives the n-th temporary file
TmpNames ==
    <<"tmp1.pdf", "tmp2.pdf", "tmp3.pdf", "tmp4.pdf", "tmp5.pdf", "tmp6.pdf">>

TmpPath(n) == TmpNames[n]

TmpPaths == {TmpNames[n] : n \in 1..Len(TmpNames)}

TextPieces ==
    { start_keywords[1], start_keywords[3], start_keywords[5],
      end_keywords[1], end_keywords[6],
      <<"\n">>, <<"a", " ">>, Repeat("w", 60), Repeat("x", 2100) }

Texts == Concats(TextPieces, MaxTextPieces)

OutputPieces ==
    { SummaryMarker, stop_phrases[5], stop_phrases[10], stop_phrases[18],
      <<"\n">>, <<" ">>, <<"o", "k", ".">>, Repeat("y", 450) }

\* "Summary: Paper shows X. Figure 1 shows Y."
ExampleOutput ==
    <<"S", "u", "m", "m", "a", "r", "y", ":", " ", "P", "a", "p", "e", "r",
    " ", "s", "h", "o", "w", "s", " ", "X", ".", " ", "F", "i", "g", "u",
    "r", "e", " ", "1", " ", "s", "h", "o", "w", "s", " ", "Y", ".">>

FullOutputs ==
    LET tails == Concats(OutputPieces, MaxOutputPieces)
    IN  tails \cup {BuildPrompt(<<>>) \o s : s \in tails} \cup {ExampleOutput}

\* pieces a text given to chunk_text is made of
MaxChunkPieces == 3

\* largest max_length given to chunk_text
MaxChunkLength == 4

ChunkPieces ==
    { <<"a", "b">>, <<"c">>, <<"a", "b", "c", "d", "e", "f">>, <<" ">>, <<"\n">> }

ChunkTexts == Concats(ChunkPieces, MaxChunkPieces)

(***************************************************************************)
(* State                                                                   *)
(***************************************************************************)

VARIABLES
    files,        \* the file system: path -> file contents
    cache,        \* st.cache_data of generate_summary_from_bytes: bytes -> str
    caller,       \* "none", "cli" (agent.py main) or "ui" (ui.py)
    pc,           \* where the program is
    requests,     \* uploads the front end has received
    upload,       \* file_bytes of the upload being handled
    tmp_path,     \* tmp_path of generate_summary_from_bytes
    pdf_path,     \* pdf_path of run
    plan,         \* plan of run / execute_plan
    step_i,       \* index in plan of the next iteration of "for step in plan"
    started,      \* step['step'] of every iteration begun by execute_plan
    results,      \* results of execute_plan
    fa,           \* locals of the last _find_abstract call
    gen,          \* locals of the last summarize call
    run_ret,      \* value returned by run
    ui_out,       \* what the page rendered last
    exit_code,    \* exit status of the command line
    output_file,  \* contents of summary_output.txt
    arg,          \* argument of a direct call of a pure function
    chunks        \* locals of the last chunk_text call

vars == <<files, cache, caller, pc, requests, upload, tmp_path, pdf_path, plan,
          step_i, started, results, fa, gen, run_ret, ui_out, exit_code,
          output_file, arg, chunks>>

NoCall == [called |-> FALSE]

None == "None"

\* summary_output.txt has not been written
NoFile == [exists |-> FALSE]

agentVars == <<plan, step_i, started, results, fa, gen>>

Init ==
    /\ files = UserFiles
    /\ cache = EmptyDict
    /\ caller = "none"
    /\ pc = "idle"
    /\ requests = 0
    /\ upload = None
    /\ tmp_path = None
    /\ pdf_path = None
    /\ plan = <<>>
    /\ step_i = 1
    /\ started = <<>>
    /\ results = EmptyDict
    /\ fa = NoCall
    /\ gen = NoCall
    /\ run_ret = None
    /\ ui_out = None
    /\ exit_code = None
    /\ output_file = NoFile
    /\ arg = None
    /\ chunks = NoCall

(***************************************************************************)
(* PaperSummarizerAgent                                                    *)
(***************************************************************************)

create_plan(path) ==
    << [step |-> 1, action |-> "extract_text", input |-> path,
        description |-> "Extract all text from PDF"],
       [step |-> 2, action |-> "clean_text", input |-> "extracted_text",
        description |-> "Isolate relevant sections (abstract/introduction)"],
       [step |-> 3, action |-> "summarize", input |-> "clean_text",
        description |-> "Generate concise summary"],
       [step |-> 4, action |-> "format_output", input |-> "summary",
        description |-> "Format and finalize output"] >>

\* run: "plan = self.create_plan(pdf_path)", then execute_plan is entered
\* with "results = {}"
RunPlan ==
    /\ pc = "run"
    /\ plan' = create_plan(pdf_path)
    /\ results' = EmptyDict
    /\ step_i' = 1
    /\ started' = <<>>
    /\ fa' = NoCall
    /\ gen' = NoCall
    /\ pc' = "execute"
    /\ UNCHANGED <<files, cache, caller, requests, upload, tmp_path, pdf_path,
                   run_ret, ui_out, exit_code, output_file, arg, chunks>>

outerVars == <<files, cache, caller, requests, upload, tmp_path, pdf_path,
               plan, run_ret, ui_out, exit_code, output_file, arg, chunks>>

\* the next iteration of "for step in plan" handles this action
AtStep(action) ==
    /\ pc = "execute"
    /\ step_i <= Len(plan)
    /\ plan[step_i].action = action

\* the iteration ends normally: on to the next step
NextStep ==
    /\ step_i' = step_i + 1
    /\ pc' = "execute"

\* Mutant of Except: the exception is only printed, no error is stored
Except_PrintOnly(stored, e) ==
    /\ results' = stored
    /\ pc' = "returned"
    /\ step_i' = step_i

\* Mutant of Except: the return is missing, the loop goes on
Except_NoReturn(stored, e) ==
    /\ results' = Put(stored, "error", e)
    /\ pc' = "execute"
    /\ step_i' = step_i + 1

\* "except Exception as e: results['error'] = str(e); return results",
\* applied to the results the step had stored so far
Except(stored, e) ==
    /\ results' = Put(stored, "error", e)
    /\ pc' = "returned"
    /\ step_i' = step_i

\* Mutant of ExtractText: a failed extraction is stored as error and the
\* return is missing
ExtractText_NoReturn ==
    /\ AtStep("extract_text")
    /\ started' = Append(started, plan[step_i].step)
    /\ LET extracted == extract_text_from_pdf(files, plan[step_i].input)
       IN  /\ results' = IF extracted.success
                         THEN Put(results, "extracted", extracted)
                         ELSE Put(Put(results, "extracted", extracted),
                                  "error", extracted.error)
           /\ NextStep
    /\ UNCHANGED <<fa, gen>>
    /\ UNCHANGED outerVars

\* step['action'] == 'extract_text'
ExtractText ==
    /\ AtStep("extract_text")
    /\ started' = Append(started, plan[step_i].step)
    /\ LET extracted == extract_text_from_pdf(files, plan[step_i].input)
       IN  /\ results' = Put(results, "extracted", extracted)
           /\ IF ~extracted.success
              THEN /\ pc' = "returned"
                   /\ step_i' = step_i
              ELSE NextStep
    /\ UNCHANGED <<fa, gen>>
    /\ UNCHANGED outerVars

\* step['action'] == 'clean_text'
CleanText ==
    /\ AtStep("clean_text")
    /\ started' = Append(started, plan[step_i].step)
    /\ IF "extracted" \in DOMAIN results
       THEN /\ fa' = [called |-> TRUE] @@ FindAbstractLocals(results["extracted"].text)
            /\ results' = Put(results, "clean_text", fa'.ret)
            /\ NextStep
       ELSE /\ Except(results, "KeyError: 'extracted'")
            /\ fa' = fa
    /\ UNCHANGED gen
    /\ UNCHANGED outerVars

\* step['action'] == 'summarize': the model call returns the decoded output
\* (the prompt followed by what the model generated) or raises
Summarize ==
    /\ AtStep("summarize")
    /\ started' = Append(started, plan[step_i].step)
    /\ IF "clean_text" \in DOMAIN results
       THEN LET prompt == BuildPrompt(results["clean_text"])
            IN  \/ \E c \in Continuations :
                     /\ gen' = [called |-> TRUE, raised |-> FALSE,
                                prompt |-> prompt, full_output |-> prompt \o c,
                                ret |-> PostProcess(prompt \o c, prompt)]
                     /\ results' = Put(results, "summary", gen'.ret)
                     /\ NextStep
                \/ \E e \in ModelErrors :
                     /\ gen' = [called |-> TRUE, raised |-> TRUE,
                                prompt |-> prompt, error |-> e]
                     /\ Except(results, e)
       ELSE /\ Except(results, "KeyError: 'clean_text'")
            /\ gen' = gen
    /\ UNCHANGED fa
    /\ UNCHANGED outerVars

\* Mutant of FormatOutput: the wrong key is copied
FormatOutput_WrongKey ==
    /\ AtStep("format_output")
    /\ started' = Append(started, plan[step_i].step)
    /\ IF "summary" \in DOMAIN results
       THEN /\ results' = Put(results, "final_summary", results["clean_text"])
            /\ NextStep
       ELSE Except(results, "KeyError: 'summary'")
    /\ UNCHANGED <<fa, gen>>
    /\ UNCHANGED outerVars

\* step['action'] == 'format_output'
FormatOutput ==
    /\ AtStep("format_output")
    /\ started' = Append(started, plan[step_i].step)
    /\ IF "summary" \in DOMAIN results
       THEN /\ results' = Put(results, "final_summary", results["summary"])
            /\ NextStep
       ELSE Except(results, "KeyError: 'summary'")
    /\ UNCHANGED <<fa, gen>>
    /\ UNCHANGED outerVars

\* the loop is exhausted: the final "return results"
ExecuteReturn ==
    /\ pc = "execute"
    /\ step_i > Len(plan)
    /\ pc' = "returned"
    /\ UNCHANGED <<step_i, started, results, fa, gen>>
    /\ UNCHANGED outerVars

\* run: "Return result".  plan and results go out of scope; they are kept
\* here until the caller has used the returned value.
RunReturn ==
    /\ pc = "returned"
    /\ run_ret' = IF "final_summary" \in DOMAIN results
                  THEN results["final_summary"]
                  ELSE <<>>
    /\ pc' = "after_run"
    /\ UNCHANGED <<files, cache, caller, requests, upload, tmp_path, pdf_path,
                   ui_out, exit_code, output_file, arg, chunks>>
    /\ UNCHANGED agentVars

(***************************************************************************)
(* Command line: main of agent.py                                          *)
(***************************************************************************)

\* "summary = agent.run(args.pdf)" is entered
CliMain(path) ==
    /\ pc = "idle"
    /\ caller = "none"
    /\ caller' = "cli"
    /\ pdf_path' = path
    /\ pc' = "run"
    /\ UNCHANGED <<files, cache, requests, upload, tmp_path, run_ret, ui_out,
                   exit_code, output_file, arg, chunks>>
    /\ UNCHANGED agentVars

\* Mutant of CliExit: the exit with status 1 is missing
CliExit_NoExitStatus ==
    /\ pc = "after_run"
    /\ caller = "cli"
    /\ IF run_ret # <<>>
       THEN /\ output_file' = [exists |-> TRUE, content |-> run_ret]
            /\ exit_code' = 0
       ELSE /\ output_file' = output_file
            /\ exit_code' = 0
    /\ pc' = "exited"
    /\ UNCHANGED <<files, cache, caller, requests, upload, tmp_path, pdf_path,
                   run_ret, ui_out, arg, chunks>>
    /\ UNCHANGED agentVars

\* "Display result": the summary is written to summary_output.txt, or the
\* process exits with status 1
CliExit ==
    /\ pc = "after_run"
    /\ caller = "cli"
    /\ IF run_ret # <<>>
       THEN /\ output_file' = [exists |-> TRUE, content |-> run_ret]
            /\ exit_code' = 0
       ELSE /\ output_file' = output_file
            /\ exit_code' = 1
    /\ pc' = "exited"
    /\ UNCHANGED <<files, cache, caller, requests, upload, tmp_path, pdf_path,
                   run_ret, ui_out, arg, chunks>>
    /\ UNCHANGED agentVars

(***************************************************************************)
(* Front end: ui.py                                                        *)
(***************************************************************************)

ErrorPrefix == <<"E", "r", "r", "o", "r", ":">>

\* "if summary.startswith("Error:") ... elif summary ... else ..."
Render(summary) ==
    IF MatchAt(summary, ErrorPrefix, 1) THEN "error"
    ELSE IF summary # <<>> THEN "success"
    ELSE "failed"

\* A file is uploaded whose bytes are in the cache: the stored return value
\* is used and the body of generate_summary_from_bytes does not run
UiCacheHit(file_bytes) ==
    /\ pc = "idle"
    /\ caller \in {"none", "ui"}
    /\ requests < MaxRequests
    /\ file_bytes \in DOMAIN cache
    /\ caller' = "ui"
    /\ requests' = requests + 1
    /\ ui_out' = Render(cache[file_bytes])
    /\ UNCHANGED <<files, cache, pc, upload, tmp_path, pdf_path, run_ret,
                   exit_code, output_file, arg, chunks>>
    /\ UNCHANGED agentVars

\* Cache miss: the temporary file is created and the bytes are written to it
\* ("with tempfile.NamedTemporaryFile(delete=False, ...)"); _agent.run is
\* entered when the write went through.  A write that raises (OSError: no
\* space left on device) leaves the with block, which closes the file without
\* deleting it, and the exception leaves the function.
UiUpload(file_bytes, written) ==
    /\ pc = "idle"
    /\ caller \in {"none", "ui"}
    /\ requests < MaxRequests
    /\ file_bytes \notin DOMAIN cache
    /\ caller' = "ui"
    /\ requests' = requests + 1
    /\ IF written
       THEN /\ files' = Put(files, TmpPath(requests + 1), file_bytes)
            /\ upload' = file_bytes
            /\ tmp_path' = TmpPath(requests + 1)
            /\ pdf_path' = TmpPath(requests + 1)
            /\ pc' = "run"
            /\ ui_out' = ui_out
       ELSE /\ files' = Put(files, TmpPath(requests + 1), Partial)
            /\ ui_out' = "exception"
            /\ UNCHANGED <<upload, tmp_path, pdf_path, pc>>
    /\ UNCHANGED <<cache, run_ret, exit_code, output_file, arg, chunks>>
    /\ UNCHANGED agentVars

\* del files[path]
Remove(fs, path) == [p \in DOMAIN fs \ {path} |-> fs[p]]

\* _agent.run returned (it catches every Exception of its steps, so the
\* except branch is not taken): the finally block removes the temporary
\* file, the summary is returned and stored in the cache, the page renders it
UiReturn ==
    /\ pc = "after_run"
    /\ caller = "ui"
    /\ files' = IF tmp_path \in DOMAIN files THEN Remove(files, tmp_path) ELSE files
    /\ cache' = Put(cache, upload, run_ret)
    /\ ui_out' = Render(run_ret)
    /\ pc' = "idle"
    /\ upload' = None
    /\ tmp_path' = None
    /\ pdf_path' = None
    /\ run_ret' = None
    /\ plan' = <<>>
    /\ step_i' = 1
    /\ started' = <<>>
    /\ results' = EmptyDict
    /\ fa' = NoCall
    /\ gen' = NoCall
    /\ UNCHANGED <<caller, requests, exit_code, output_file, arg, chunks>>

(***************************************************************************)
(* Specifications                                                          *)
(***************************************************************************)

Next ==
    \/ \E path \in CliPaths : CliMain(path)
    \/ CliExit
    \/ \E file_bytes \in Uploads : UiCacheHit(file_bytes)
    \/ \E file_bytes \in Uploads, written \in BOOLEAN : UiUpload(file_bytes, written)
    \/ UiReturn
    \/ RunPlan
    \/ ExtractText
    \/ CleanText
    \/ Summarize
    \/ FormatOutput
    \/ ExecuteReturn
    \/ RunReturn

Spec == Init /\ [][Next]_vars

\* _find_abstract applied to every text of Texts
InitIsolator ==
    /\ files = EmptyDict
    /\ cache = EmptyDict
    /\ caller = "none"
    /\ pc = "call"
    /\ requests = 0
    /\ upload = None
    /\ tmp_path = None
    /\ pdf_path = None
    /\ plan = <<>>
    /\ step_i = 1
    /\ started = <<>>
    /\ results = EmptyDict
    /\ fa = NoCall
    /\ gen = NoCall
    /\ run_ret = None
    /\ ui_out = None
    /\ exit_code = None
    /\ output_file = NoFile
    /\ arg \in Texts
    /\ chunks = NoCall

CallFindAbstract ==
    /\ pc = "call"
    /\ fa' = [called |-> TRUE] @@ FindAbstractLocals(arg)
    /\ pc' = "called"
    /\ UNCHANGED <<files, cache, caller, requests, upload, tmp_path, pdf_path,
                   plan, step_i, started, results, gen, run_ret, ui_out,
                   exit_code, output_file, arg, chunks>>

SpecIsolator == InitIsolator /\ [][CallFindAbstract]_vars

\* the cleanup of summarize applied to every decoded output of FullOutputs
InitSanitizer ==
    /\ files = EmptyDict
    /\ cache = EmptyDict
    /\ caller = "none"
    /\ pc = "call"
    /\ requests = 0
    /\ upload = None
    /\ tmp_path = None
    /\ pdf_path = None
    /\ plan = <<>>
    /\ step_i = 1
    /\ started = <<>>
    /\ results = EmptyDict
    /\ fa = NoCall
    /\ gen = NoCall
    /\ run_ret = None
    /\ ui_out = None
    /\ exit_code = None
    /\ output_file = NoFile
    /\ arg \in FullOutputs
    /\ chunks = NoCall

CallPostProcess ==
    /\ pc = "call"
    /\ gen' = [called |-> TRUE, raised |-> FALSE, prompt |-> BuildPrompt(<<>>),
               full_output |-> arg, ret |-> PostProcess(arg, BuildPrompt(<<>>))]
    /\ pc' = "called"
    /\ UNCHANGED <<files, cache, caller, requests, upload, tmp_path, pdf_path,
                   plan, step_i, started, results, fa, run_ret, ui_out,
                   exit_code, output_file, arg, chunks>>

SpecSanitizer == InitSanitizer /\ [][CallPostProcess]_vars

\* chunk_text applied to every text of ChunkTexts and every max_length
InitChunker ==
    /\ files = EmptyDict
    /\ cache = EmptyDict
    /\ caller = "none"
    /\ pc = "call"
    /\ requests = 0
    /\ upload = None
    /\ tmp_path = None
    /\ pdf_path = None
    /\ plan = <<>>
    /\ step_i = 1
    /\ started = <<>>
    /\ results = EmptyDict
    /\ fa = NoCall
    /\ gen = NoCall
    /\ run_ret = None
    /\ ui_out = None
    /\ exit_code = None
    /\ output_file = NoFile
    /\ arg \in [text : ChunkTexts, max_length : 1..MaxChunkLength]
    /\ chunks = NoCall

CallChunkText ==
    /\ pc = "call"
    /\ chunks' = [called |-> TRUE, text |-> arg.text, max_length |-> arg.max_length,
                  ret |-> chunk_text(arg.text, arg.max_length)]
    /\ pc' = "called"
    /\ UNCHANGED <<files, cache, caller, requests, upload, tmp_path, pdf_path,
                   plan, step_i, started, results, fa, gen, run_ret, ui_out,
                   exit_code, output_file, arg>>

SpecChunker == InitChunker /\ [][CallChunkText]_vars

(***************************************************************************)
(* Properties                                                              *)
(***************************************************************************)

Has(key) == key \in DOMAIN results

\* execute_plan has returned results
Returned == pc = "returned"

ExtractionFailed == Has("extracted") /\ ~results["extracted"].success

ExtractionSucceeded == Has("extracted") /\ results["extracted"].success

SummarizerRaised == gen.called /\ gen.raised

SummarizerReturned == gen.called /\ ~gen.raised

\* C1: the result execute_plan returns contains final_summary or error,
\* whatever the extractor and the summarizer did
C1_FinalSummaryOrError ==
    Returned => (Has("final_summary") \/ Has("error"))

\* C2: when the extractor reports failure, the returned result contains
\* error and none of clean_text, summary, final_summary
C2_ExtractionFailureStoresError ==
    (Returned /\ ExtractionFailed) =>
        /\ Has("error")
        /\ ~Has("clean_text")
        /\ ~Has("summary")
        /\ ~Has("final_summary")

\* C3: when extraction succeeds and the summarizer call raises, the returned
\* result contains error (the exception text) and clean_text, and neither
\* summary nor final_summary
C3_SummarizerFailure ==
    (Returned /\ ExtractionSucceeded /\ SummarizerRaised) =>
        /\ Has("error")
        /\ results["error"] = gen.error
        /\ Has("clean_text")
        /\ ~Has("summary")
        /\ ~Has("final_summary")

C3_Witness == Returned /\ ExtractionSucceeded /\ SummarizerRaised

\* C4: at no point of execute_plan, and in no returned result, does results
\* contain both final_summary and error
C4_NotBoth == ~(Has("final_summary") /\ Has("error"))

C4_Witness == Returned /\ Has("final_summary")

\* the run has failed: an error is stored or the extractor reported failure
Failed == Has("error") \/ ExtractionFailed

\* C5: the steps run in the order 1, 2, 3, 4, each at most once; a step that
\* fails ends execute_plan and no step starts after a failure; while
\* execute_plan runs, the keys stored so far stay in results with their values
C5_OrderedFailFast ==
    [][ /\ \A i \in 1..Len(started') : started'[i] = i
        /\ Len(started') > Len(started) => ~Failed
        /\ pc = "execute" =>
              /\ Failed' => pc' = "returned"
              /\ \A key \in DOMAIN results :
                    key \in DOMAIN results' /\ results'[key] = results[key]
      ]_vars

C5_Witness == Returned /\ Has("error") /\ started = <<1, 2, 3>>

\* C6: when extraction succeeds and the summarizer returns, final_summary is
\* the string the summarizer returned; extracted, clean_text and summary are
\* in the result and error is not
C6_SuccessResult ==
    (Returned /\ ExtractionSucceeded /\ SummarizerReturned) =>
        /\ Has("final_summary")
        /\ results["final_summary"] = gen.ret
        /\ Has("clean_text")
        /\ Has("summary")
        /\ ~Has("error")

C6_Witness ==
    /\ Returned
    /\ ExtractionSucceeded
    /\ SummarizerReturned
    /\ gen.ret # <<>>

\* w is what follows the first occurrence of kw in s
IsAfterFirst(s, kw, w) ==
    \E i \in 1..Len(s) :
        /\ MatchAt(s, kw, i)
        /\ \A j \in 1..(i - 1) : ~MatchAt(s, kw, j)
        /\ w = SubSeq(s, i + Len(kw), Len(s))

\* w is what precedes the first occurrence of kw in s
IsBeforeFirst(s, kw, w) ==
    \E i \in 1..Len(s) :
        /\ MatchAt(s, kw, i)
        /\ \A j \in 1..(i - 1) : ~MatchAt(s, kw, j)
        /\ w = SubSeq(s, 1, i - 1)

\* kw is the earliest-listed keyword of the list that occurs in s
IsFirstListed(keywords, s, k) ==
    /\ k \in 1..Len(keywords)
    /\ Contains(s, keywords[k])
    /\ \A j \in 1..(k - 1) : ~Contains(s, keywords[j])

\* a keyword listed after keywords[k] occurs in s before keywords[k] does
LaterListedOccursEarlier(keywords, s, k) ==
    \E j \in (k + 1)..Len(keywords) :
        /\ Contains(s, keywords[j])
        /\ IndexOf(s, keywords[j]) < IndexOf(s, keywords[k])

\* C7: the start marker used is the earliest-listed start keyword that occurs
\* in the text, wherever the others occur, and the working text is what
\* follows its first occurrence; the end marker is chosen in the same way in
\* the working text, which is cut at its first occurrence
C7_ListOrderPriority ==
    fa.called =>
        /\ IF \E k \in 1..Len(start_keywords) : Contains(fa.text, start_keywords[k])
           THEN /\ IsFirstListed(start_keywords, fa.text, fa.start_kw)
                /\ IsAfterFirst(fa.text, start_keywords[fa.start_kw], fa.after_start)
           ELSE fa.start_kw = 0
        /\ IF \E k \in 1..Len(end_keywords) : Contains(fa.after_start, end_keywords[k])
           THEN /\ IsFirstListed(end_keywords, fa.after_start, fa.end_kw)
                /\ IsBeforeFirst(fa.after_start, end_keywords[fa.end_kw], fa.after_end)
           ELSE fa.end_kw = 0 /\ fa.after_end = fa.after_start

C7_Witness ==
    /\ fa.called
    /\ fa.start_kw # 0
    /\ LaterListedOccursEarlier(start_keywords, fa.text, fa.start_kw)
    /\ fa.end_kw # 0
    /\ LaterListedOccursEarlier(end_keywords, fa.after_start, fa.end_kw)

\* C8: when the cleaned text is shorter than 50 characters the value returned
\* is the first 2000 characters of the input with every newline replaced by a
\* space; otherwise the cleaned text is returned
C8_LengthFallback ==
    fa.called =>
        IF Len(fa.cleaned) < 50
        THEN /\ Len(fa.ret) = (IF Len(fa.text) < 2000 THEN Len(fa.text) ELSE 2000)
             /\ \A i \in 1..Len(fa.ret) :
                   fa.ret[i] = (IF fa.text[i] = "\n" THEN " " ELSE fa.text[i])
        ELSE fa.ret = fa.cleaned

C8_Witness ==
    /\ fa.called
    /\ Len(fa.cleaned) < 50
    /\ Len(fa.text) > 2000
    /\ \E i \in 1..2000 : fa.text[i] = "\n"

\* C9: the string summarize returns is at most 800 characters long
C9_LengthBound ==
    SummarizerReturned => Len(gen.ret) <= 800

C9_Witness ==
    /\ SummarizerReturned
    /\ Len(gen.full_output) > 800
    /\ Len(gen.ret) = 800

\* C10: whenever generate_summary_from_bytes is not running, no temporary
\* file it created is left on disk
C10_TempFileDeleted ==
    pc = "idle" => \A path \in DOMAIN files : path \notin TmpPaths

\* the front end shows this summary as a failure
IsFailure(summary) == Render(summary) # "success"

\* C11: no failed outcome of generate_summary_from_bytes (the empty string or
\* an "Error: ..." string) is stored in the cache, so that the same bytes are
\* summarized again instead of replaying the failure
C11_NoFailureCached ==
    \A file_bytes \in DOMAIN cache : ~IsFailure(cache[file_bytes])

\* the command line has exited
Exited == pc = "exited"

\* every step of the plan ran and none failed
AllStepsCompleted == started = <<1, 2, 3, 4>> /\ ~Failed

\* C12 as stated: run returns the final summary of a successful run and the
\* empty string of a failed one; after every successful run the command line
\* writes the summary to summary_output.txt and exits with status 0, after
\* any other run it exits with a non-zero status and writes no file
C12_ExitStatusFollowsSuccess ==
    Exited =>
        IF AllStepsCompleted
        THEN /\ run_ret = results["final_summary"]
             /\ output_file = [exists |-> TRUE, content |-> results["final_summary"]]
             /\ exit_code = 0
        ELSE /\ run_ret = <<>>
             /\ output_file = NoFile
             /\ exit_code # 0

\* C12 amended: the command line writes the summary and exits with status 0
\* after every successful run whose final summary is not empty; it exits with
\* a non-zero status and writes no file when run returned the empty string,
\* after a failed run or after a successful run whose final summary is empty
C12_ExitStatusFollowsSummary ==
    Exited =>
        /\ run_ret = (IF AllStepsCompleted THEN results["final_summary"] ELSE <<>>)
        /\ IF AllStepsCompleted /\ results["final_summary"] # <<>>
           THEN /\ output_file = [exists |-> TRUE, content |-> results["final_summary"]]
                /\ exit_code = 0
           ELSE /\ output_file = NoFile
                /\ exit_code # 0

C12_Witness ==
    /\ Exited
    /\ AllStepsCompleted
    /\ results["final_summary"] = <<>>
    /\ exit_code = 1

\* C13: every chunk chunk_text returns has at most max_length characters,
\* also when the text has a word longer than max_length
C13_ChunkLengthBound ==
    chunks.called =>
        \A i \in 1..Len(chunks.ret) : Len(chunks.ret[i]) <= chunks.max_length

\* C14: the string summarize returns contains none of the stop phrases
C14_NoStopPhrase ==
    SummarizerReturned =>
        \A k \in 1..Len(stop_phrases) : ~Contains(gen.ret, stop_phrases[k])

\* "Paper shows X."
ExampleSummary ==
    <<"P", "a", "p", "e", "r", " ", "s", "h", "o", "w", "s", " ", "X", ".">>

C14_Witness ==
    /\ SummarizerReturned
    /\ gen.full_output = ExampleOutput
    /\ gen.ret = ExampleSummary

====
